---- MODULE Spec2Model ----
(***************************************************************************)
(* A model of package kvlog (src/kvlog/kvlog.go): the Writer that renders  *)
(* a log record (message text plus rendered key/value pairs) into a        *)
(* column-bounded, optionally colourised buffer and hands it to the        *)
(* underlying stream under a mutex.                                        *)
(*                                                                         *)
(* Text is a sequence of code points, each written as a one-character      *)
(* string.  The escape byte 0x1b is written "ESC", vertical tab "VT", and   *)
(* the two-byte code point U+00E9 "e'".                                    *)
(* A byte count is the sum of ByteLen over the code points.                *)
(***************************************************************************)
EXTENDS Integers, Sequences, FiniteSets, TLC

\* ------------------------------------------------------------------ bounds
\* Number of callers that may be inside Write at the same time.
NumCallers == 2
\* A message text is the concatenation of at most MaxPieces pieces.
MaxPieces == 3
\* A record carries at most MaxPairs key/value pairs.
MaxPairs == 2
\* The terminal reports between 2 and MaxCols columns.
MaxCols == 12

\* ------------------------------------------------------- program constants
defaultWidth == 170
defaultIndent == 4

Procs == 1..NumCallers

\* ------------------------------------------------------------- characters
Digits == {"0", "1", "2", "3", "4", "5", "6", "7", "8", "9"}

\* \s of Go's regexp package (RE2 syntax): [\t\n\f\r ]
ReSpace == {" ", "\t", "\n", "\f", "\r"}

\* unicode.IsSpace: also vertical tab (and U+0085, U+00A0, ...)
UnicodeSpace == ReSpace \cup {"VT"}

\* utf8 encoded size of a code point; every other code point used is ASCII
ByteLen(c) == IF c = "e'" THEN 2 ELSE 1

RECURSIVE ByteCount(_)
ByteCount(s) == IF s = <<>> THEN 0 ELSE ByteLen(Head(s)) + ByteCount(Tail(s))

\* utf8.RuneCount / utf8.RuneCountInString
RuneCount(s) == Len(s)

Drop(s, n) == SubSeq(s, n + 1, Len(s))
Take(s, n) == SubSeq(s, 1, n)

RECURSIVE Spaces(_)
Spaces(n) == IF n = 0 THEN <<>> ELSE <<" ">> \o Spaces(n - 1)

\* length of the longest prefix of s whose characters all satisfy set S
RECURSIVE RunIn(_, _)
RunIn(s, S) == IF s # <<>> /\ Head(s) \in S THEN 1 + RunIn(Tail(s), S) ELSE 0

RECURSIVE RunNotIn(_, _)
RunNotIn(s, S) == IF s # <<>> /\ Head(s) \notin S THEN 1 + RunNotIn(Tail(s), S) ELSE 0

IsPrefix(p, s) == Len(p) <= Len(s) /\ Take(s, Len(p)) = p

\* ------------------------------------------------------------- headerRE
\* s matches the shape: "D" a digit, any other character itself
RECURSIVE MatchShape(_, _)
MatchShape(s, shape) ==
    IF shape = <<>> THEN TRUE
    ELSE /\ s # <<>>
         /\ IF Head(shape) = "D" THEN Head(s) \in Digits ELSE Head(s) = Head(shape)
         /\ MatchShape(Tail(s), Tail(shape))

\* (\d{4}/\d\d/\d\d )? : the length the group matches at the start of s
MatchDate(s) ==
    IF MatchShape(s, <<"D","D","D","D","/","D","D","/","D","D"," ">>) THEN 11 ELSE 0

\* (\.\d{0,6})? then the space that closes the time group: the length matched
\* after the seconds, 0 when the group cannot be closed
MatchFrac(s) ==
    IF s # <<>> /\ Head(s) = " " THEN 1
    ELSE IF s # <<>> /\ Head(s) = "."
         THEN LET k == RunIn(Tail(s), Digits)
              IN IF k <= 6 /\ Len(s) >= k + 2 /\ s[k + 2] = " " THEN k + 2 ELSE 0
         ELSE 0

\* the time group with the fraction taken out of it:
\* (\d\d:\d\d:\d\d )?(\.\d{0,6} )?
MatchTimeDetachedFrac(s) ==
    LET t == IF MatchShape(s, <<"D","D",":","D","D",":","D","D"," ">>) THEN 9 ELSE 0
        r == Drop(s, t)
    IN t + (IF r # <<>> /\ Head(r) = "." THEN MatchFrac(r) ELSE 0)

\* (\d\d:\d\d:\d\d(\.\d{0,6})? )?
MatchTime(s) ==
    IF MatchShape(s, <<"D","D",":","D","D",":","D","D">>) /\ MatchFrac(Drop(s, 8)) > 0
    THEN 8 + MatchFrac(Drop(s, 8))
    ELSE 0

\* len(headerRE.FindStringSubmatch(s)[0])
HeaderLen(s) == MatchDate(s) + MatchTime(Drop(s, MatchDate(s)))

\* ------------------------------------------------- prefixes and escapes
verbosePrefixes == { <<"d","e","b","u","g",":">>, <<"t","r","a","c","e",":">> }

errorPrefixes == { <<"e","r","r","o","r",":">> }

Fold(c) == CASE c = "E" -> "e" [] c = "R" -> "r" [] c = "O" -> "o" [] OTHER -> c

\* bytes.EqualFold(bs[:len(p)], p)
EqualFold(a, b) == Len(a) = Len(b) /\ \A i \in 1..Len(a) : Fold(a[i]) = Fold(b[i])

IsErrorToken(bs) ==
    \E p \in errorPrefixes : Len(bs) >= Len(p) /\ EqualFold(Take(bs, Len(p)), p)

HasVerbosePrefix(text) == \E vp \in verbosePrefixes : IsPrefix(vp, text)

newline == <<"\n">>
RED == <<"ESC", "[", "0", ";", "3", "1", "m">>
RESET == <<"ESC", "[", "0", "m">>

\* ------------------------------------------------------------------ state
VARIABLES
    termSize,       \* the terminal behind the stream: the columns terminal.GetSize
                    \* reports, or 0 when it reports an error (or there is none)
    detected,       \* what NewWriter found out about the stream: "plain" (no Fd, or
                    \* not a terminal), "term" (a terminal that is no *os.File),
                    \* "termfile" (a terminal *os.File)
    Out,            \* Writer.Out: "orig" (the stream itself) or "colorable"
    WidthFn,        \* Writer.Width: "terminal" (closure over GetSize) or "default"
    Verbose,        \* Writer.Verbose
    colorOutput,    \* Writer.colorOutput
    mutex,          \* Writer.mutex: 0 when free, else the caller holding it
    noColorCalled,  \* history: NoColor() has returned
    lockOrder,      \* history: the callers in the order they acquired the mutex
    inOutWrite,     \* the callers currently inside Out.Write
    stream,         \* what the stream was handed, one entry per Out.Write call
    call,           \* per caller: the locals of its Write call
    prev            \* history, per caller: its previous Write call, when finished

vars == <<termSize, detected, Out, WidthFn, Verbose, colorOutput, mutex,
          noColorCalled, lockOrder, inOutWrite, stream, call, prev>>

writerVars == <<termSize, detected, Out, WidthFn, Verbose, colorOutput, noColorCalled>>

\* The locals of a Write call before it starts.  text, list: the record handed
\* in (msg.Text, and msg.List with each pair rendered by kv.P(..).String());
\* todo: the records the caller hands in afterwards, one call after the other.
\* The fields after "history" are not in the program: they record what the call
\* did, for the properties below.
Idle(text, list, todo) ==
    [pc |-> "idle", msgText |-> text, list |-> list, todo |-> todo,
     prefix |-> <<>>, text |-> <<>>, width |-> 0, widthFrom |-> "none",
     indentLen |-> 0,
     in |-> <<>>, sb |-> <<>>, col |-> 0, needSpace |-> 0, kvi |-> 1,
     res |-> <<>>, ret |-> <<>>,
     \* history
     k |-> 1, suppressed |-> FALSE, afterNoColor |-> FALSE,
     colorBegin |-> FALSE, colorEnd |-> FALSE,
     outUsed |-> "none", toks |-> <<>>, lineToks |-> << <<>> >>,
     sbText |-> <<>>, colText |-> 0, needText |-> 0]

\* A caller that makes no call.
Off == [Idle(<<>>, <<>>, <<>>) EXCEPT !.pc = "off"]

\* ------------------------------------------------------------ NewWriter
\* The Writer NewWriter returns for a stream of the detected kind, with the
\* exported field Verbose set by the program.
NewWriter(kind, verbose) ==
    /\ detected = kind
    /\ Out = IF kind = "termfile" THEN "colorable" ELSE "orig"
    /\ colorOutput = (kind = "termfile")
    /\ WidthFn = IF kind \in {"term", "termfile"} THEN "terminal" ELSE "default"
    /\ Verbose = verbose
    /\ mutex = 0
    /\ noColorCalled = FALSE
    /\ lockOrder = <<>>
    /\ inOutWrite = {}
    /\ stream = <<>>
    /\ prev = [p \in Procs |-> Off]

\* The terminal behind a stream of the detected kind: one of the sizes, or none.
Terminal(kind, sizes) == termSize \in (IF kind = "plain" THEN {0} ELSE {0} \cup sizes)

\* lines 81-100: what Writer.Width returns: the terminal's columns less one,
\* or defaultWidth when GetSize fails or the stream is no terminal
Width(fn, size) ==
    IF fn = "terminal" /\ size # 0 THEN size - 1 ELSE defaultWidth

\* ------------------------------------------------------------- NoColor
\* line 107: Out after NoColor
NoColorOut(out) == "orig"

\* line 108 left out: colorOutput keeps its value
NoColorFlagKept(flag) == flag

\* line 108: colorOutput after NoColor
NoColorFlag(flag) == FALSE

NoColor ==
    /\ ~noColorCalled
    /\ Out' = NoColorOut(Out)
    /\ colorOutput' = NoColorFlag(colorOutput)
    /\ noColorCalled' = TRUE
    /\ UNCHANGED <<termSize, detected, WidthFn, Verbose, mutex, lockOrder, inOutWrite,
                   stream, call, prev>>

\* --------------------------------------------------------------- Write
IndentLen(prefix) == IF Len(prefix) > 0 THEN Len(prefix) ELSE defaultIndent

\* lines 139-146 with the Verbose flag ignored
SuppressedAlways(verbose, text) == HasVerbosePrefix(text)

\* lines 139-146: the record is not to be written
Suppressed(verbose, text) == ~verbose /\ HasVerbosePrefix(text)

\* lines 129-177: parse, strip the header, the verbosity filter, Width(), the
\* indent, and the buffer started with the prefix
Begin(p) ==
    /\ call[p].pc = "idle"
    /\ LET c == call[p]
           hl == HeaderLen(c.msgText)
           prefix == Take(c.msgText, hl)
           text == Drop(c.msgText, hl)
       IN IF Suppressed(Verbose, text)
          THEN call' = [call EXCEPT ![p] =
                   [c EXCEPT !.pc = "done", !.prefix = prefix, !.text = text,
                             !.ret = <<0, "nil">>, !.suppressed = TRUE,
                             !.afterNoColor = noColorCalled,
                             !.colorBegin = colorOutput]]
          ELSE call' = [call EXCEPT ![p] =
                   [c EXCEPT !.pc = "text", !.prefix = prefix, !.text = text,
                             !.width = Width(WidthFn, termSize),
                             !.widthFrom = WidthFn,
                             !.indentLen = IndentLen(prefix),
                             !.sb = prefix, !.col = Len(prefix),
                             !.afterNoColor = noColorCalled,
                             !.colorBegin = colorOutput]]
    /\ UNCHANGED <<writerVars, mutex, lockOrder, inOutWrite, stream, prev>>

\* lines 187-215 with line 213 left out: the punctuation is written but stays
\* in the remaining text
TokenizeKeepPunct(in) ==
    LET nws == RunIn(in, ReSpace)
        in1 == Drop(in, nws)
        nbs == RunNotIn(in1, ReSpace \cup {","})
        in2 == Drop(in1, nbs)
        hasPunct == in2 # <<>> /\ Head(in2) \notin UnicodeSpace
    IN [ws |-> Take(in, nws),
        wsLen |-> IF nws > 0 THEN 1 ELSE 0,
        bs |-> Take(in1, nbs),
        bsLen |-> RuneCount(Take(in1, nbs)),
        punct |-> IF hasPunct THEN <<Head(in2)>> ELSE <<>>,
        punctLen |-> IF hasPunct THEN ByteLen(Head(in2)) ELSE 0,
        rest |-> in2]

\* lines 187-215: one token off the front of the remaining text
Tokenize(in) ==
    LET nws == RunIn(in, ReSpace)
        in1 == Drop(in, nws)
        nbs == RunNotIn(in1, ReSpace \cup {","})
        in2 == Drop(in1, nbs)
        hasPunct == in2 # <<>> /\ Head(in2) \notin UnicodeSpace
    IN [ws |-> Take(in, nws),
        wsLen |-> IF nws > 0 THEN 1 ELSE 0,
        bs |-> Take(in1, nbs),
        bsLen |-> RuneCount(Take(in1, nbs)),
        punct |-> IF hasPunct THEN <<Head(in2)>> ELSE <<>>,
        punctLen |-> IF hasPunct THEN ByteLen(Head(in2)) ELSE 0,
        rest |-> IF hasPunct THEN Tail(in2) ELSE in2]

\* line 217 with the attached punctuation left out of the sum
NeedsWrapNoPunct(bsLen, wsLen, punctLen, col, width) == bsLen + wsLen + col > width

\* line 217
NeedsWrap(bsLen, wsLen, punctLen, col, width) == bsLen + wsLen + punctLen + col > width

\* lines 227-246 with the escape sequences counted as part of the word
HighlightCounted(bs, color) ==
    IF color /\ IsErrorToken(bs) THEN <<"!">> \o bs ELSE bs

\* lines 227-246: the bytes written for the word of a token that stays on the line
Highlight(bs, color) ==
    IF color /\ IsErrorToken(bs) THEN RED \o bs \o RESET ELSE bs

\* line 268 with the pending space left out of the sum
PairNeedsWrapNoSpace(pairLen, needSpace, col, width) == pairLen + col > width

\* line 268
PairNeedsWrap(pairLen, needSpace, col, width) == pairLen + needSpace + col > width

AddTok(lines, w) == [lines EXCEPT ![Len(lines)] = Append(@, w)]

\* line 182: wrap token by token, or (lines 256-265) write the text as it is
TextBranch(p) ==
    /\ call[p].pc = "text"
    /\ LET c == call[p]
           n == RuneCount(c.text)
       IN IF c.col + n > c.width \/ colorOutput
          THEN call' = [call EXCEPT ![p] = [c EXCEPT !.pc = "loop", !.in = c.text]]
          ELSE call' = [call EXCEPT ![p] =
                   [c EXCEPT !.pc = "kv",
                             !.sb = IF n > 0 THEN c.sb \o c.text ELSE c.sb,
                             !.col = c.col + n,
                             !.needSpace = IF n > 0 THEN 1 ELSE 0,
                             !.lineToks = IF n > 0 THEN AddTok(c.lineToks, n) ELSE @,
                             !.colorEnd = colorOutput,
                             !.sbText = IF n > 0 THEN c.sb \o c.text ELSE c.sb,
                             !.colText = c.col + n,
                             !.needText = IF n > 0 THEN 1 ELSE 0]]
    /\ UNCHANGED <<writerVars, mutex, lockOrder, inOutWrite, stream, prev>>

\* lines 186-254: one iteration of the token loop
TokenStep(p) ==
    /\ call[p].pc = "loop"
    /\ call[p].in # <<>>
    /\ LET c == call[p]
           t == Tokenize(c.in)
           wrap == NeedsWrap(t.bsLen, t.wsLen, t.punctLen, c.col, c.width)
           word == Highlight(t.bs, colorOutput)
           sb1 == IF wrap THEN c.sb \o newline \o Spaces(c.indentLen) \o t.bs
                  ELSE c.sb \o (IF t.wsLen > 0 THEN <<" ">> ELSE <<>>) \o word
           col1 == IF wrap THEN c.indentLen + t.bsLen
                   ELSE c.col + t.wsLen + t.bsLen
           tok == [bs |-> t.bs, wrapped |-> wrap, hl |-> ~wrap /\ word # t.bs]
       IN call' = [call EXCEPT ![p] =
              [c EXCEPT !.in = t.rest,
                        !.sb = sb1 \o t.punct,
                        !.col = col1 + t.punctLen,
                        !.toks = Append(@, tok),
                        !.lineToks = IF wrap THEN Append(@, <<t.bsLen + t.punctLen>>)
                                     ELSE AddTok(@, t.bsLen + t.punctLen)]]
    /\ UNCHANGED <<writerVars, mutex, lockOrder, inOutWrite, stream, prev>>

\* lines 186, 255: the text is used up
LoopExit(p) ==
    /\ call[p].pc = "loop"
    /\ call[p].in = <<>>
    /\ LET c == call[p]
       IN call' = [call EXCEPT ![p] =
              [c EXCEPT !.pc = "kv", !.needSpace = 1, !.colorEnd = colorOutput,
                        !.sbText = c.sb, !.colText = c.col, !.needText = 1]]
    /\ UNCHANGED <<writerVars, mutex, lockOrder, inOutWrite, stream, prev>>

\* lines 267-282: one key/value pair
KvStep(p) ==
    /\ call[p].pc = "kv"
    /\ call[p].kvi <= Len(call[p].list)
    /\ LET c == call[p]
           pair == c.list[c.kvi]
           n == RuneCount(pair)
           wrap == PairNeedsWrap(n, c.needSpace, c.col, c.width)
           need == IF wrap THEN 0 ELSE c.needSpace
           sb1 == IF wrap THEN c.sb \o newline \o Spaces(c.indentLen) ELSE c.sb
           col1 == IF wrap THEN c.indentLen ELSE c.col
       IN call' = [call EXCEPT ![p] =
              [c EXCEPT !.kvi = c.kvi + 1,
                        !.sb = sb1 \o (IF need > 0 THEN <<" ">> ELSE <<>>) \o pair,
                        !.col = col1 + need + n,
                        !.needSpace = 1,
                        !.lineToks = IF wrap THEN Append(@, <<n>>) ELSE AddTok(@, n)]]
    /\ UNCHANGED <<writerVars, mutex, lockOrder, inOutWrite, stream, prev>>

\* line 284
KvDone(p) ==
    /\ call[p].pc = "kv"
    /\ call[p].kvi > Len(call[p].list)
    /\ call' = [call EXCEPT ![p].pc = "lock", ![p].sb = @ \o newline]
    /\ UNCHANGED <<writerVars, mutex, lockOrder, inOutWrite, stream, prev>>

\* line 286 without the wait for the mutex
LockNoWait(p) ==
    /\ call[p].pc = "lock"
    /\ mutex' = p
    /\ lockOrder' = Append(lockOrder, p)
    /\ call' = [call EXCEPT ![p].pc = "write"]
    /\ UNCHANGED <<writerVars, inOutWrite, stream, prev>>

\* line 286
Lock(p) ==
    /\ call[p].pc = "lock"
    /\ mutex = 0
    /\ mutex' = p
    /\ lockOrder' = Append(lockOrder, p)
    /\ call' = [call EXCEPT ![p].pc = "write"]
    /\ UNCHANGED <<writerVars, inOutWrite, stream, prev>>

\* line 287: w.Out is read and its Write entered with the whole buffer
WriteBegin(p) ==
    /\ call[p].pc = "write"
    /\ inOutWrite' = inOutWrite \cup {p}
    /\ call' = [call EXCEPT ![p].pc = "inwrite", ![p].outUsed = Out]
    /\ UNCHANGED <<writerVars, mutex, lockOrder, stream, prev>>

\* What an io.Writer may answer for buf: all of it written, or an error with
\* none of it written.
WriteResults(buf) == { <<ByteCount(buf), "nil">>, <<0, "EIO">> }

\* line 287: Out.Write returns
WriteEnd(p) ==
    /\ call[p].pc = "inwrite"
    /\ \E r \in WriteResults(call[p].sb) :
          /\ stream' = Append(stream, [by |-> p, k |-> call[p].k, data |-> call[p].sb,
                                       res |-> r, out |-> call[p].outUsed])
          /\ call' = [call EXCEPT ![p].pc = "unlock", ![p].res = r]
    /\ inOutWrite' = inOutWrite \ {p}
    /\ UNCHANGED <<writerVars, mutex, lockOrder, prev>>

\* line 289 with the length of the buffer returned for the count
ReturnedLen(res, buf) == <<ByteCount(buf), res[2]>>

\* line 289: what Write returns for the result res of Out.Write
Returned(res, buf) == res

\* lines 288-289
Unlock(p) ==
    /\ call[p].pc = "unlock"
    /\ mutex' = 0
    /\ call' = [call EXCEPT ![p].pc = "done",
                            ![p].ret = Returned(call[p].res, call[p].sb)]
    /\ UNCHANGED <<writerVars, lockOrder, inOutWrite, stream, prev>>

\* The caller's Write has returned and it calls Write with its next record.
Again(p) ==
    /\ call[p].pc = "done"
    /\ call[p].todo # <<>>
    /\ prev' = [prev EXCEPT ![p] = call[p]]
    /\ call' = [call EXCEPT ![p] =
           [Idle(Head(call[p].todo).text, Head(call[p].todo).list, Tail(call[p].todo))
               EXCEPT !.k = call[p].k + 1]]
    /\ UNCHANGED <<writerVars, mutex, lockOrder, inOutWrite, stream>>

\* the steps of one Write call of caller p
Write(p) ==
          \/ Begin(p)
          \/ TextBranch(p)
          \/ TokenStep(p)
          \/ LoopExit(p)
          \/ KvStep(p)
          \/ KvDone(p)
          \/ Lock(p)
          \/ WriteBegin(p)
          \/ WriteEnd(p)
          \/ Unlock(p)

\* every caller calls Write once
Next == NoColor \/ \E p \in Procs : Write(p)

\* every caller calls Write for each of its records in turn
NextAgain == NoColor \/ \E p \in Procs : Write(p) \/ Again(p)

\* ------------------------------------------------------------- records
RECURSIVE TextsUpTo(_, _)
TextsUpTo(P, n) ==
    IF n = 0 THEN { <<>> }
    ELSE LET T == TextsUpTo(P, n - 1) IN T \cup { t \o q : t \in T, q \in P }

\* rendered key/value pairs, as kv.P(key, value).String() gives them
ShortPair == <<"k", "=", "1">>

LongPair == <<"l", "o", "n", "g", "=", "2">>

\* the lists of up to MaxPairs pairs that alternate the two, either one first
Lists ==
    { [i \in 1..n |-> IF i % 2 = 1 THEN ShortPair ELSE LongPair] : n \in 0..MaxPairs }
    \cup { [i \in 1..n |-> IF i % 2 = 1 THEN LongPair ELSE ShortPair] : n \in 0..MaxPairs }

Kinds == {"plain", "term", "termfile"}

\* pieces of message text
RenderPieces ==
    { <<"a", "e'">>, <<" ">>, <<",">>, <<"E", "r", "r", "o", "r", ":">> }

\* headers as the log package writes them
TimeHeader == <<"1", "2", ":", "3", "4", ":", "5", "6", " ">>

DateHeader == <<"2", "0", "2", "4", "/", "0", "1", "/", "0", "2", " ">>

RenderTexts ==
    TextsUpTo(RenderPieces, MaxPieces)
    \cup { TimeHeader \o t : t \in TextsUpTo(RenderPieces, MaxPieces - 1) }

\* One caller, records of words, blanks, commas and an error token, with and
\* without a time header, on a colour terminal (where NoColor gives the plain
\* rendering at each width) or on a plain stream.
InitRender ==
    /\ \E kind \in {"plain", "termfile"} :
          NewWriter(kind, TRUE) /\ Terminal(kind, 2..MaxCols)
    /\ \E t \in RenderTexts, l \in Lists :
          call = [p \in Procs |-> IF p = 1 THEN Idle(t, l, <<>>) ELSE Off ]

SpecRender == InitRender /\ [][Next]_vars

FracHeader == <<"1", "2", ":", "3", "4", ":", "5", "6", ".", "7", " ">>

HeaderPieces ==
    { DateHeader, TimeHeader, FracHeader, <<"x">>, <<".", " ">>, <<"7">> }

\* One caller, texts put together from dates, times, a word, a digit and a full
\* stop, on any kind of stream.
InitHeader ==
    /\ \E kind \in Kinds : NewWriter(kind, TRUE) /\ Terminal(kind, {MaxCols})
    /\ \E t \in TextsUpTo(HeaderPieces, MaxPieces), l \in { <<>>, <<ShortPair>> } :
          call = [p \in Procs |-> IF p = 1 THEN Idle(t, l, <<>>) ELSE Off ]

SpecHeader == InitHeader /\ [][Next]_vars

\* text with the low-priority markers spoilt: "debug:" to "Debug:", "trace:" to
\* "Trace:" (no other piece holds a "d" or a "t")
Unmark(text) ==
    [i \in 1..Len(text) |->
        CASE text[i] = "d" -> "D" [] text[i] = "t" -> "T" [] OTHER -> text[i]]

VerbosePieces ==
    { <<"d", "e", "b", "u", "g", ":">>, <<"t", "r", "a", "c", "e", ":">>,
      <<" ">>, <<"a", "e'">> }

VerboseTexts ==
    TextsUpTo(VerbosePieces, MaxPieces)
    \cup { TimeHeader \o t : t \in TextsUpTo(VerbosePieces, MaxPieces - 1) }

\* One caller that writes a record and then the same record with its markers
\* spoilt, with Verbose set or not, on any kind of stream.
InitVerbose ==
    /\ \E kind \in Kinds, v \in BOOLEAN :
          NewWriter(kind, v) /\ Terminal(kind, {MaxCols - 4, MaxCols})
    /\ \E t \in VerboseTexts, l \in { <<>>, <<ShortPair>> } :
          call = [p \in Procs |->
                    IF p = 1 THEN Idle(t, l, << [text |-> Unmark(t), list |-> l] >>)
                    ELSE Off ]

SpecVerbose == InitVerbose /\ [][NextAgain]_vars

ColourPieces ==
    { <<"a", "e'">>, <<" ">>, <<"\t">>, <<"E", "r", "r", "o", "r", ":">> }

\* One caller that writes the same record twice on a colour terminal, where
\* NoColor may be called in between.
InitColour ==
    /\ NewWriter("termfile", TRUE) /\ Terminal("termfile", 2..MaxCols)
    /\ \E t \in TextsUpTo(ColourPieces, MaxPieces), l \in { <<>>, <<ShortPair>> } :
          call = [p \in Procs |->
                    IF p = 1 THEN Idle(t, l, << [text |-> t, list |-> l] >>)
                    ELSE Off ]

SpecColour == InitColour /\ [][NextAgain]_vars

\* the records of concurrent callers: an error message with a pair, which
\* wraps at the width of the terminal, and a debug message
ErrorRecord ==
    [text |-> <<"E", "r", "r", "o", "r", ":", " ", "a", "e'", ",">>,
     list |-> <<ShortPair>>]

DebugRecord == [text |-> <<"d", "e", "b", "u", "g", ":">>, list |-> <<>>]

ConcRecords == { ErrorRecord, DebugRecord }

\* Every caller calls Write once, with either record, on any kind of stream.
InitConc ==
    /\ \E kind \in Kinds, v \in BOOLEAN :
          NewWriter(kind, v) /\ Terminal(kind, {MaxCols - 4})
    /\ \E r \in [Procs -> ConcRecords] :
          call = [p \in Procs |-> Idle(r[p].text, r[p].list, <<>>)]

SpecConc == InitConc /\ [][Next]_vars

\* a record of two tokens, each ending in punctuation, and a pair
ShortRecord == [text |-> <<"a", ",", " ", "b", ",">>, list |-> <<ShortPair>>]

\* a record that begins with punctuation, holds a vertical tab, which the
\* white-space rule does not match, and ends in a blank
PunctRecord == [text |-> <<",", "VT", ",", " ">>, list |-> <<ShortPair>>]

\* Every caller calls Write once, on a colour terminal with Verbose on: the
\* first caller with the short record or the punctuation record, the others
\* with the debug record and the short record in turn.
InitFair ==
    /\ NewWriter("termfile", TRUE) /\ Terminal("termfile", {MaxCols - 4})
    /\ \E first \in {ShortRecord, PunctRecord} :
          call = [p \in Procs |->
                    IF p = 1 THEN Idle(first.text, first.list, <<>>)
                    ELSE IF p % 2 = 1
                         THEN Idle(ShortRecord.text, ShortRecord.list, <<>>)
                         ELSE Idle(DebugRecord.text, DebugRecord.list, <<>>)]

\* The scheduler does not stop while a step can be taken, and Out.Write
\* returns.
SpecFair == InitFair /\ [][Next]_vars /\ WF_vars(Next)

\* ------------------------------------------------------------ properties
\* s without the two escape sequences Write emits
RECURSIVE StripEsc(_)
StripEsc(s) ==
    IF s = <<>> THEN <<>>
    ELSE IF IsPrefix(RED, s) THEN StripEsc(Drop(s, Len(RED)))
    ELSE IF IsPrefix(RESET, s) THEN StripEsc(Drop(s, Len(RESET)))
    ELSE <<Head(s)>> \o StripEsc(Tail(s))

\* s split at its line breaks
RECURSIVE Lines(_)
Lines(s) ==
    LET k == RunNotIn(s, {"\n"})
    IN IF k = Len(s) THEN <<s>> ELSE <<Take(s, k)>> \o Lines(Drop(s, k + 1))

\* p is handing its assembled buffer to Out.Write
Assembled(p) == call[p].pc = "inwrite"

\* line k of p's buffer is no wider than the width, counted in visible columns
LineFits(p, k) == Len(Lines(StripEsc(call[p].sb))[k]) <= call[p].width

\* line k of p's buffer holds a single token wider than width - indent length
\* (a blank run that ends the text is a token of width 0)
SingleWideToken(p, k) ==
    /\ Len(call[p].lineToks[k]) = 1
    /\ call[p].lineToks[k][1] > call[p].width - call[p].indentLen

\* line k is the first line, holds the header and nothing else, and the header
\* alone is wider than the width
HeaderAlone(p, k) ==
    /\ k = 1
    /\ call[p].lineToks[1] = <<>>
    /\ Lines(call[p].sb)[1] = call[p].prefix
    /\ Len(call[p].prefix) > call[p].width

\* C1 as stated: no line of an emitted buffer is wider than Width(), in visible
\* columns, except a line that holds a single token whose own width exceeds
\* width minus the continuation-indent length.
C1_NoOverflow_AsStated ==
    \A p \in Procs : Assembled(p) =>
        \A k \in 1..Len(call[p].lineToks) : LineFits(p, k) \/ SingleWideToken(p, k)

\* C1 as amended: no line of an emitted buffer is wider than Width(), in visible
\* columns, except a line that holds a single token whose own width exceeds
\* width minus the continuation-indent length, and except the first line when
\* it is the header alone and the header is wider than the width.
C1_NoOverflow ==
    \A p \in Procs : Assembled(p) =>
        /\ Len(Lines(call[p].sb)) = Len(call[p].lineToks) + 1
        /\ \A k \in 1..Len(call[p].lineToks) :
              LineFits(p, k) \/ SingleWideToken(p, k) \/ HeaderAlone(p, k)

\* C1 witness: a coloured record wrapped over three lines or more, one line
\* holding two tokens or more and filling the width exactly, another holding
\* one over-wide token.
C1_Witness ==
    \E p \in Procs :
        /\ Assembled(p)
        /\ call[p].colorEnd
        /\ Len(call[p].lineToks) >= 3
        /\ \E k \in 1..Len(call[p].lineToks) :
              /\ Len(call[p].lineToks[k]) >= 2
              /\ Len(Lines(StripEsc(call[p].sb))[k]) = call[p].width
        /\ \E k \in 1..Len(call[p].lineToks) : ~LineFits(p, k) /\ SingleWideToken(p, k)

\* colour output was off for the whole of call c, or on for the whole of its
\* text (colorOutput is set by NewWriter and only ever cleared, by NoColor)
PlainCall(c) == c.pc \notin {"idle", "off"} /\ ~c.colorBegin
ColouredCall(c) == c.pc \notin {"idle", "off", "text", "loop"} /\ c.colorEnd
Plain(p) == PlainCall(call[p])
Coloured(p) == ColouredCall(call[p])

\* C6 as stated: with colour output enabled, every word token whose first bytes
\* equal "error:" case-insensitively is emitted between the red and the reset
\* escape sequences, wherever it lands on a line, and no other token is.
C6_ErrorHighlight ==
    \A p \in Procs : Assembled(p) /\ Coloured(p) =>
        \A i \in 1..Len(call[p].toks) :
            call[p].toks[i].hl <=> IsErrorToken(call[p].toks[i].bs)

\* the key/value section as C7 states it: each pair after one space, or on a
\* new line after the indent when col + pair width + 1 > width
RECURSIVE PairsAsStated(_, _, _, _, _)
PairsAsStated(list, i, col, width, indentLen) ==
    IF i > Len(list) THEN <<>>
    ELSE LET n == Len(list[i])
         IN IF col + n + 1 > width
            THEN newline \o Spaces(indentLen) \o list[i]
                 \o PairsAsStated(list, i + 1, indentLen + n, width, indentLen)
            ELSE <<" ">> \o list[i]
                 \o PairsAsStated(list, i + 1, col + 1 + n, width, indentLen)

\* the key/value section with a pending space of 0 or 1 before the first pair
\* and of 1 before every later one
RECURSIVE PairsPending(_, _, _, _, _, _)
PairsPending(list, i, col, pending, width, indentLen) ==
    IF i > Len(list) THEN <<>>
    ELSE LET n == Len(list[i])
         IN IF col + n + pending > width
            THEN newline \o Spaces(indentLen) \o list[i]
                 \o PairsPending(list, i + 1, indentLen + n, 1, width, indentLen)
            ELSE (IF pending = 1 THEN <<" ">> ELSE <<>>) \o list[i]
                 \o PairsPending(list, i + 1, col + pending + n, 1, width, indentLen)

\* C7 as stated: after the message text the pairs follow in the order supplied,
\* each once and after one space; a pair goes to a new line (line break, indent,
\* no space) exactly when current column + pair width + 1 > width, whatever the
\* text and the colour setting.
C7_PairPlacement_AsStated ==
    \A p \in Procs : Assembled(p) =>
        call[p].sb = call[p].sbText
                     \o PairsAsStated(call[p].list, 1, call[p].colText,
                                      call[p].width, call[p].indentLen)
                     \o newline

\* no space is pending before the first pair: the text is empty, the header is
\* no wider than the width and the record is rendered without colour
NothingPending(p) ==
    call[p].text = <<>> /\ Len(call[p].prefix) <= call[p].width /\ Plain(p)

\* C7 as amended: after the message text the pairs follow in the order
\* supplied, each once; a pair goes to a new line (line break, indent, no space)
\* exactly when current column + pair width + pending space > width, and is
\* otherwise preceded by the pending space; the pending space is 1, except
\* before the first pair of a record with empty text whose header is no wider
\* than the width and which is rendered without colour, where it is 0.
C7_PairPlacement ==
    \A p \in Procs : Assembled(p) =>
        /\ call[p].sb = call[p].sbText
                        \o PairsPending(call[p].list, 1, call[p].colText,
                                        call[p].needText, call[p].width,
                                        call[p].indentLen)
                        \o newline
        /\ NothingPending(p) => call[p].needText = 0
        /\ (call[p].text # <<>> \/ Len(call[p].prefix) > call[p].width \/ Coloured(p))
              => call[p].needText = 1
        /\ call[p].colText = Len(Lines(StripEsc(call[p].sbText))[Len(Lines(call[p].sbText))])

\* C7 witness: a record with empty text and two pairs, rendered without colour;
\* the first pair fills the width exactly and stays on the line, the second is
\* moved to a new line.
C7_Witness ==
    \E p \in Procs :
        /\ Assembled(p)
        /\ NothingPending(p)
        /\ Len(call[p].list) = 2
        /\ call[p].colText + Len(call[p].list[1]) = call[p].width
        /\ Len(call[p].lineToks) = 2
        /\ call[p].lineToks[1] = <<Len(call[p].list[1])>>

\* p's call has stripped the header off its message text
Stripped(p) == call[p].pc \notin {"idle", "off"}

Written(p) == { i \in 1..Len(stream) : stream[i].by = p /\ stream[i].k = call[p].k }

\* p's current call and its previous one rendered under the same colour setting
SameColour(p) ==
    \/ Plain(p) /\ PlainCall(prev[p])
    \/ Coloured(p) /\ ColouredCall(prev[p])

\* C3: with Verbose false, a record whose text after the header begins with
\* "debug:" or "trace:" returns (0, nil) and reaches Out.Write never; every
\* other record, and every record with Verbose true, is written once, and with
\* Verbose true a record that begins with a marker is laid out as the same
\* record with the marker spoilt is: the marker has no effect on the layout.
C3_VerbosityGating ==
    \A p \in Procs :
        /\ call[p].pc = "done" =>
              IF ~Verbose /\ HasVerbosePrefix(call[p].text)
              THEN call[p].ret = <<0, "nil">> /\ Written(p) = {}
              ELSE /\ Cardinality(Written(p)) = 1
                   /\ \A i \in Written(p) : stream[i].data = call[p].sb
                   /\ call[p].sb # <<>>
        /\ (/\ Verbose
            /\ call[p].pc = "done" /\ prev[p].pc = "done"
            /\ call[p].msgText = Unmark(prev[p].msgText)
            /\ call[p].list = prev[p].list
            /\ call[p].width = prev[p].width
            /\ SameColour(p))
              => call[p].sb = Unmark(prev[p].sb)

\* C3 witness: with Verbose true a record with a header and the "debug:" marker
\* has been written over two lines or more, and then the record with the marker
\* spoilt.
C3_Witness ==
    \E p \in Procs :
        /\ Verbose
        /\ call[p].pc = "done" /\ prev[p].pc = "done"
        /\ SameColour(p)
        /\ prev[p].prefix # <<>>
        /\ IsPrefix(<<"d", "e", "b", "u", "g", ":">>, prev[p].text)
        /\ Len(prev[p].lineToks) >= 2
        /\ call[p].msgText = Unmark(prev[p].msgText)
        /\ call[p].msgText # prev[p].msgText

\* the positions of the line breaks of s, each counted in the visible
\* non-blank characters that precede it
BreakPositions(s) ==
    { Cardinality({ j \in 1..(i - 1) : s[j] \notin ReSpace }) :
        i \in { i \in 1..Len(s) : s[i] = "\n" } }

\* every run of white space in text is a single space
SingleSpaced(text) ==
    \A i \in 1..Len(text) : text[i] \in ReSpace =>
        /\ text[i] = " "
        /\ i < Len(text) => text[i + 1] \notin ReSpace

\* p has assembled a record without colour that its previous call assembled
\* with colour, at the same width
ColourThenPlain(p) ==
    /\ Assembled(p) /\ Plain(p)
    /\ prev[p].pc = "done" /\ ColouredCall(prev[p])
    /\ call[p].msgText = prev[p].msgText
    /\ call[p].list = prev[p].list
    /\ call[p].width = prev[p].width

\* C5 as stated: for every record and width, the coloured output with the
\* escape sequences removed has its line breaks at the same positions as the
\* output for the same record and width without colour.
C5_SameBreaks_AsStated ==
    \A p \in Procs : ColourThenPlain(p) =>
        BreakPositions(StripEsc(prev[p].sb)) = BreakPositions(call[p].sb)

\* C5 as amended: for every record and width where the message text is not
\* empty and every run of white space in it is a single space, or where header
\* and text together are wider than the width, the coloured output with the
\* escape sequences removed is the output without colour, so its line breaks
\* are at the same positions.
C5_SameBreaks ==
    \A p \in Procs :
        (/\ ColourThenPlain(p)
         /\ \/ call[p].text # <<>> /\ SingleSpaced(call[p].text)
            \/ Len(call[p].prefix) + Len(call[p].text) > call[p].width)
        => /\ StripEsc(prev[p].sb) = call[p].sb
           /\ BreakPositions(StripEsc(prev[p].sb)) = BreakPositions(call[p].sb)

\* C5 witness: a record with an error token that was highlighted, single
\* spaced and fitting the width, has been rendered with colour and then without,
\* and one of its pairs was moved to a new line.
C5_Witness ==
    \E p \in Procs :
        /\ ColourThenPlain(p)
        /\ SingleSpaced(call[p].text)
        /\ Len(call[p].text) <= call[p].width
        /\ \E i \in 1..Len(prev[p].toks) : prev[p].toks[i].hl
        /\ Len(prev[p].toks) >= 2
        /\ Len(call[p].lineToks) = 2

Last(s) == s[Len(s)]

\* C2: at most one caller is inside Out.Write at any time, and it holds the
\* mutex; each call that is not suppressed hands its whole record (prefix,
\* text, key/value section, newline) to Out.Write in one call; the stream
\* receives the records in the order the callers acquired the mutex.
C2_NoInterleaving ==
    /\ Cardinality(inOutWrite) <= 1
    /\ \A p \in inOutWrite : mutex = p /\ call[p].pc = "inwrite"
    /\ \A i \in 1..Len(stream) :
          LET c == call[stream[i].by]
          IN /\ stream[i].data = c.sb
             /\ c.pc \in {"unlock", "done"}
             /\ c.in = <<>> /\ c.kvi = Len(c.list) + 1
             /\ IsPrefix(c.prefix, c.sb) /\ Last(c.sb) = "\n"
    /\ Len(stream) <= Len(lockOrder)
    /\ \A i \in 1..Len(stream) : stream[i].by = lockOrder[i]
    /\ \A p \in Procs : Cardinality(Written(p)) <= 1
    /\ \A p \in Procs :
          call[p].pc = "done" /\ ~call[p].suppressed => Cardinality(Written(p)) = 1

\* C2 witness: one caller is inside Out.Write with a record of three lines
\* while another, its record assembled, waits for the mutex.
C2_Witness ==
    \E p, q \in Procs :
        /\ p # q
        /\ call[p].pc = "inwrite" /\ mutex = p
        /\ Len(call[p].lineToks) = 3
        /\ call[q].pc = "lock" /\ call[q].sb # <<>>

NoEscape(s) == \A i \in 1..Len(s) : s[i] # "ESC"

\* C8 as stated: after NoColor() every later Write emits no escape sequence,
\* writes to the original stream and does not use terminal-specific sizing,
\* whatever NewWriter detected.
C8_NoColor_AsStated ==
    \A p \in Procs : call[p].afterNoColor =>
        /\ NoEscape(call[p].sb)
        /\ call[p].outUsed \in {"none", "orig"}
        /\ call[p].widthFrom # "terminal"

\* C8 as amended: after NoColor() every later Write emits no escape sequence
\* and writes to the original stream, whatever NewWriter detected; NoColor
\* leaves Width as NewWriter set it, so a Writer made for a terminal goes on
\* sizing by the terminal.
C8_NoColor ==
    /\ WidthFn = (IF detected \in {"term", "termfile"} THEN "terminal" ELSE "default")
    /\ \A p \in Procs : call[p].afterNoColor =>
          /\ NoEscape(call[p].sb)
          /\ call[p].outUsed \in {"none", "orig"}
          /\ call[p].widthFrom \in {"none", WidthFn}
    /\ \A i \in 1..Len(stream) : call[stream[i].by].afterNoColor =>
          NoEscape(stream[i].data) /\ stream[i].out = "orig"

\* C8 witness: on a colour terminal one caller has written an error token in
\* red through the colorable stream, and another, which called Write after
\* NoColor, has written its error token plain to the original stream, at the
\* width of the terminal.
C8_Witness ==
    \E p, q \in Procs :
        /\ call[p].pc = "done" /\ ~call[p].afterNoColor /\ ~NoEscape(call[p].sb)
        /\ call[p].outUsed = "colorable"
        /\ call[q].pc = "done" /\ call[q].afterNoColor
        /\ call[q].toks # <<>> /\ IsErrorToken(call[q].toks[1].bs)
        /\ call[q].widthFrom = "terminal" /\ call[q].width < defaultWidth

\* C9: a call that is not suppressed calls Out.Write exactly once and returns
\* that call's count and error unchanged, with no retry after a failure; a
\* suppressed call returns (0, nil); Write returns no other error.
C9_ErrorPropagation ==
    \A p \in Procs :
        /\ Cardinality(Written(p)) <= 1
        /\ call[p].pc = "done" =>
              IF call[p].suppressed
              THEN Written(p) = {} /\ call[p].ret = <<0, "nil">>
              ELSE /\ Cardinality(Written(p)) = 1
                   /\ \A i \in Written(p) : call[p].ret = stream[i].res

\* C9 witness: one caller's Out.Write failed and it returned the error with a
\* count of 0, after another caller's record of more bytes than code points was
\* written in full.
C9_Witness ==
    \E p, q \in Procs :
        /\ call[p].pc = "done" /\ call[p].ret = <<0, "EIO">>
        /\ call[q].pc = "done" /\ call[q].ret = <<Len(call[q].sb) + 1, "nil">>
        /\ Len(stream) = 2 /\ stream[1].by = q /\ stream[2].by = p

\* C10: in the end every caller's Write call has returned and the mutex is
\* free, whether the writes succeeded or failed; and each iteration of the
\* token loop takes at least one byte off the remaining text.
C10_Terminates ==
    /\ <>(\A p \in Procs : call[p].pc = "done" /\ mutex = 0)
    /\ [][\A p \in Procs :
             call[p].pc = "loop" /\ call'[p] # call[p]
                => \/ call'[p].pc = "kv" /\ call[p].in = <<>>
                   \/ /\ call'[p].pc = "loop"
                      /\ ByteCount(call'[p].in) < ByteCount(call[p].in)]_vars

\* C10 witness: a caller has returned after its Out.Write failed, its token
\* loop having run twice, and another caller holds the mutex after it.
C10_Witness ==
    \E p, q \in Procs :
        /\ call[p].pc = "done" /\ call[p].ret[2] = "EIO"
        /\ Len(call[p].toks) >= 2
        /\ mutex = q /\ lockOrder = <<p, q>>

====
